---- MODULE Spec2Model ----
(***************************************************************************)
(* A model of the dataprism-app-template core:                             *)
(*   - the CDN loader state machine of src/src/utils/cdnLoader.ts          *)
(*     (the current version, lines 170-511), with any number of            *)
(*     overlapping calls of loadDataPrismFromCDN;                          *)
(*   - the FileUpload ingestion pipeline (src/unnamed/part_004): the type  *)
(*     and size checks of handleFile, the CSV, JSON and TXT parsers and    *)
(*     the column type inference;                                          *)
(*   - the DataPrismProvider effect (src/src/contexts/DataPrismContext.tsx)*)
(*     that loads the engine, and its consumers;                           *)
(*   - the upload and chart settings state of AppContent (src/src/App.tsx) *)
(*     with overlapping calls of handleFile.                               *)
(* Strings of file contents are sequences of one-character strings, so     *)
(* that trim, split and replace are computed as the code computes them.    *)
(***************************************************************************)
EXTENDS Integers, Sequences, FiniteSets, TLC

VARIABLES
    \* ---- loader (cdnLoader.ts) ----
    loaderState,      \* the module-level singleton {isLoaded, isLoading, error, loadTime}
    windowDataPrism,  \* (window as any).DataPrism
    windowArrow,      \* (window as any).Arrow is set
    docHead,          \* elements attached to document.head: [links, scripts]
    now,              \* Date.now()
    nextId,           \* identity of the next object a script or the stub factory creates
    call,             \* one record per call of loadDataPrismFromCDN
    enableFallbacks,  \* the enableFallbacks setting of the build
    \* ---- ingestion (FileUpload) ----
    file,             \* the File handed to handleFile
    stage,            \* position of handleFile: "none", "selected", "reading", "done"
    uploading,        \* useState uploading
    error,            \* useState error (FileUpload)
    delivered,        \* the datasets passed to onFileUpload, in order
    doc,              \* how the selected file was made: the header and rows it was rendered from
    textRead,         \* file.text() has been called
    legacyDates,      \* the engine's Date.parse accepts digit-bearing text outside the ISO format
    \* ---- DataPrismProvider (DataPrismContext.tsx) ----
    mounted,          \* the provider: "no" before it mounts, "yes", "gone" after it unmounted
    provider,         \* its useState values {engine, isLoading, error, isInitialized}
    runs,             \* one record per run of the effect of lines 18-65
    engines,          \* one record per engine instance createMockEngine returned
    effectPending,    \* the passive effects due after a committed render: "none", "cleanup", "run"
    \* ---- AppContent (App.tsx) and the calls of handleFile ----
    uploads,          \* one record per call of handleFile
    uploadedData,     \* useState uploadedData
    chartConfig       \* useState chartConfig

loaderVars == <<loaderState, windowDataPrism, windowArrow, docHead, now, nextId,
                call, enableFallbacks>>
ingestVars == <<file, stage, uploading, error, delivered, doc, textRead, legacyDates>>
providerVars == <<mounted, provider, runs, engines, effectPending>>
appVars == <<uploads, uploadedData, chartConfig>>
vars == <<loaderVars, ingestVars, providerVars, appVars>>

(***************************************************************************)
(* Bounds of the model                                                     *)
(***************************************************************************)
MaxCalls == 3       \* calls of loadDataPrismFromCDN in one behaviour
MaxClock == 1       \* Date.now() advances at most this far
MaxCols == 2        \* header names of a generated CSV document
MaxRows == 2        \* data lines of a generated CSV document
MaxTextLen == 3     \* length of an arbitrary file text
MaxRun == 10        \* leading equal cells of a one-column document
MaxTail == 1        \* cells after the leading run
MaxJsonRows == 2    \* elements of a JSON list
MaxLines == 3       \* lines of a text document
MaxUploads == 2     \* calls of handleFile in one behaviour of the application

Calls == 1..MaxCalls

(***************************************************************************)
(* Loader: constants, values                                               *)
(***************************************************************************)
retries == 3
backoffStep == 1000   \* line 279: the wait after failed attempt k is backoffStep * k ms

null == "null"
ErrArrow == "Apache Arrow is required for DataPrism but could not be loaded"
ErrNotFound == "DataPrism not found on window after script load"
ErrScriptTimeout == "Script loading timeout"
ErrScriptError == "Script loading error"
ErrLoadingFailed == "Loading failed"
ErrWaitTimeout == "Wait for load timeout"

\* window.DataPrism when nothing is installed
undefined == [isMock |-> FALSE, id |-> 0]

\* new Error(`Failed to load DataPrism: ${message}`) is [wrapped |-> TRUE, ...]
NoError == [wrapped |-> FALSE, message |-> null]
WrappedError(msg) == [wrapped |-> TRUE, message |-> msg]
PlainError(msg) == [wrapped |-> FALSE, message |-> msg]

IdleCall == [pc |-> "idle", via |-> "none", joined |-> 0, startTime |-> 0,
             arrowCheck |-> "none", preloads |-> 0, scripts |-> 0, attempt |-> 0,
             delays |-> <<>>, lastError |-> null, result |-> undefined,
             error |-> NoError]

InitialLoaderState == [isLoaded |-> FALSE, isLoading |-> FALSE, error |-> null,
                       loadTime |-> -1]

\* the calls inside the fetch section (between isLoading = true and finally)
InFetch(c) == call[c].pc \in {"arrow", "preload", "script", "backoff"}
Settled(c) == call[c].pc \in {"resolved", "rejected"}

getLoaderState == loaderState

\* FileUpload's error state when no message is shown
NoUploadError == [message |-> null, ext |-> <<>>]

\* JavaScript values: t is the type, s the characters of a string, n a number,
\* b a boolean, keys the own keys of an object in Object.keys order, items the
\* values of those keys (object) or the elements (array)
JsValue(t, s, n, b, keys, items) ==
    [t |-> t, s |-> s, n |-> n, b |-> b, keys |-> keys, items |-> items]
JsString(s) == JsValue("string", s, 0, FALSE, <<>>, <<>>)
JsNumber(n) == JsValue("number", <<>>, n, FALSE, <<>>, <<>>)
JsBoolean(b) == JsValue("boolean", <<>>, 0, b, <<>>, <<>>)
JsNull == JsValue("null", <<>>, 0, FALSE, <<>>, <<>>)
JsUndefined == JsValue("undefined", <<>>, 0, FALSE, <<>>, <<>>)
JsObject(keys, items) == JsValue("object", <<>>, 0, FALSE, keys, items)
JsArray(items) == JsValue("array", <<>>, 0, FALSE, <<>>, items)

\* no file chosen; json is the array or object the text denotes when the text
\* is one JSON.parse reads as an array or object
NoFile == [name |-> <<>>, text |-> <<>>, size |-> 0, json |-> JsNull]
NoDoc == [kind |-> "none", wellFormed |-> FALSE, header |-> <<>>, rows |-> <<>>]

\* FileUpload before any file is chosen (part_004 lines 17-19)
IngestIdle ==
    /\ file = NoFile
    /\ stage = "none"
    /\ uploading = FALSE
    /\ error = NoUploadError
    /\ delivered = <<>>
    /\ doc = NoDoc
    /\ textRead = FALSE
    /\ legacyDates = FALSE

\* the dataset of a failed parse
NoDataset == [data |-> <<>>, columns |-> <<>>, errors |-> <<>>,
              summary |-> [rowCount |-> 0, columnCount |-> 0, memoryUsageBytes |-> 0]]

\* the provider's state at its first render (DataPrismContext.tsx lines 13-16);
\* engine 0 is null, an engine instance is known by the effect run that made it
InitialProvider == [engine |-> 0, isLoading |-> TRUE, error |-> NoError,
                    isInitialized |-> FALSE]

\* a run of the effect: pc is the position of initializeDataPrism, live says
\* that the cleanup function the run returned has not been called, cleanup
\* that the run's variable of line 19 holds the closure of lines 45-47
IdleRun == [pc |-> "idle", live |-> FALSE, cleanup |-> FALSE]

\* an engine instance: the calls of its methods so far
NoEngine == [created |-> FALSE, initCalls |-> 0, initialized |-> FALSE, cleanups |-> 0,
             processed |-> FALSE, processedAfterCleanup |-> FALSE]

\* the provider before it is mounted
ProviderIdle ==
    /\ mounted = "no"
    /\ provider = InitialProvider
    /\ runs = [r \in Calls |-> IdleRun]
    /\ engines = [e \in Calls |-> NoEngine]
    /\ effectPending = "none"

Uploads == 1..MaxUploads

\* App.tsx lines 14-20
TitleDefault == <<"D", "a", "t", "a", " ", "V", "i", "s", "u", "a", "l", "i", "z", "a",
                  "t", "i", "o", "n">>
InitialChartConfig == [id |-> "default-chart", type |-> "bar", title |-> TitleDefault,
                       xField |-> <<>>, yField |-> <<>>]

\* uploadedData: from is the call of handleFile that delivered the dataset,
\* 0 while uploadedData is null (App.tsx line 13)
NoUploadedData == [from |-> 0, dataset |-> NoDataset]
IdleUpload == [pc |-> "idle", file |-> NoFile]

\* AppContent at its first render
AppIdle ==
    /\ uploads = [u \in Uploads |-> IdleUpload]
    /\ uploadedData = NoUploadedData
    /\ chartConfig = InitialChartConfig

LoaderIdle(fallbacks) ==
    /\ loaderState = InitialLoaderState
    /\ windowDataPrism = undefined
    /\ windowArrow = FALSE
    /\ docHead = [links |-> 0, scripts |-> 0]
    /\ now = 0
    /\ nextId = 1
    /\ call = [c \in Calls |-> IdleCall]
    /\ enableFallbacks = fallbacks

(***************************************************************************)
(* Loader: the steps of loadDataPrismFromCDN                               *)
(***************************************************************************)
\* ReturnLoaded as the earlier version of the loader had it: a bare return
ReturnLoaded_Void(c) ==
    /\ call' = [call EXCEPT ![c] = [@ EXCEPT !.pc = "resolved", !.via = "loaded"]]
    /\ UNCHANGED <<loaderState, windowDataPrism, windowArrow, docHead, nextId>>

\* lines 222-224: already loaded, return window.DataPrism
ReturnLoaded(c) ==
    /\ call' = [call EXCEPT ![c] = [@ EXCEPT !.pc = "resolved", !.via = "loaded",
                                              !.result = windowDataPrism]]
    /\ UNCHANGED <<loaderState, windowDataPrism, windowArrow, docHead, nextId>>

\* lines 227-230 and waitForLoad 375-394: start polling for the in-flight load
JoinWait(c) ==
    /\ call' = [call EXCEPT ![c] = [@ EXCEPT !.pc = "waiting", !.via = "waited",
                  !.joined = CHOOSE d \in Calls : InFetch(d)]]
    /\ UNCHANGED <<loaderState, windowDataPrism, windowArrow, docHead, nextId>>

\* FreshLoad that forgets to clear the error of the previous attempt, and
\* FreshLoad that inserts the preload link before the Arrow check has finished
FreshLoad_KeepsError(c) ==
    /\ loaderState' = [loaderState EXCEPT !.isLoading = TRUE]
    /\ IF windowArrow
         THEN /\ call' = [call EXCEPT ![c] = [@ EXCEPT !.pc = "preload", !.via = "fresh",
                            !.startTime = now, !.arrowCheck = "ok", !.preloads = 1]]
              /\ docHead' = [docHead EXCEPT !.links = @ + 1]
         ELSE /\ call' = [call EXCEPT ![c] = [@ EXCEPT !.pc = "arrow", !.via = "fresh",
                            !.startTime = now, !.arrowCheck = "pending"]]
              /\ docHead' = docHead
    /\ UNCHANGED <<windowDataPrism, windowArrow, nextId>>

\* ArrowImportFail that treats the failed precondition like a failed fetch and
\* substitutes the stub
ArrowImportFail_FallsBack(c) ==
    /\ call[c].pc = "arrow"
    /\ loaderState' = [loaderState EXCEPT !.isLoading = FALSE]
    /\ windowDataPrism' = [isMock |-> TRUE, id |-> nextId]
    /\ nextId' = nextId + 1
    /\ call' = [call EXCEPT ![c] = [@ EXCEPT !.pc = "resolved", !.arrowCheck = "failed",
                                              !.result = [isMock |-> TRUE, id |-> nextId]]]
    /\ UNCHANGED <<windowArrow, docHead, now, enableFallbacks, ingestVars, providerVars, appVars>>

\* lines 232-247: enter the fetch section, run ensureApacheArrowAvailable up to
\* its first suspension; with window.Arrow present it returns at once and the
\* preload link is inserted
FreshLoad(c) ==
    /\ loaderState' = [loaderState EXCEPT !.isLoading = TRUE, !.error = null]
    /\ IF windowArrow
         THEN /\ call' = [call EXCEPT ![c] = [@ EXCEPT !.pc = "preload", !.via = "fresh",
                            !.startTime = now, !.arrowCheck = "ok", !.preloads = 1]]
              /\ docHead' = [docHead EXCEPT !.links = @ + 1]
         ELSE /\ call' = [call EXCEPT ![c] = [@ EXCEPT !.pc = "arrow", !.via = "fresh",
                            !.startTime = now, !.arrowCheck = "pending"]]
              /\ docHead' = docHead
    /\ UNCHANGED <<windowDataPrism, windowArrow, nextId>>

\* loadDataPrismFromCDN that does not look at isLoading
loadDataPrismFromCDN_NoJoin(c) ==
    IF loaderState.isLoaded THEN ReturnLoaded(c) ELSE FreshLoad(c)

\* loadDataPrismFromCDN, lines 216-236: the synchronous prefix of a call
loadDataPrismFromCDN(c) ==
    IF loaderState.isLoaded THEN ReturnLoaded(c)
    ELSE IF loaderState.isLoading THEN JoinWait(c)
    ELSE FreshLoad(c)

\* some caller calls loadDataPrismFromCDN
LoadCall(c) ==
    /\ call[c].pc = "idle"
    /\ IF c = 1 THEN TRUE ELSE call[c - 1].pc # "idle"
    /\ loadDataPrismFromCDN(c)
    /\ UNCHANGED <<now, enableFallbacks, ingestVars, providerVars, appVars>>

\* ensureApacheArrowAvailable, lines 361-364, then preloadScript 333-345
ArrowImportOk(c) ==
    /\ call[c].pc = "arrow"
    /\ windowArrow' = TRUE
    /\ call' = [call EXCEPT ![c] = [@ EXCEPT !.pc = "preload", !.arrowCheck = "ok",
                                              !.preloads = 1]]
    /\ docHead' = [docHead EXCEPT !.links = @ + 1]
    /\ UNCHANGED <<loaderState, windowDataPrism, nextId, now, enableFallbacks, ingestVars, providerVars, appVars>>

\* ensureApacheArrowAvailable, lines 365-369, caught at 292-297
ArrowImportFail(c) ==
    /\ call[c].pc = "arrow"
    /\ loaderState' = [loaderState EXCEPT !.error = ErrArrow, !.isLoading = FALSE]
    /\ call' = [call EXCEPT ![c] = [@ EXCEPT !.pc = "rejected", !.arrowCheck = "failed",
                                              !.error = WrappedError(ErrArrow)]]
    /\ UNCHANGED <<windowDataPrism, windowArrow, docHead, nextId, now, enableFallbacks,
                   ingestVars, providerVars, appVars>>

\* preloadScript resolves (onload, onerror or the 1 s timer), then lines 250-255:
\* the first script element is inserted
PreloadDone(c) ==
    /\ call[c].pc = "preload"
    /\ call' = [call EXCEPT ![c] = [@ EXCEPT !.pc = "script", !.scripts = @ + 1]]
    /\ docHead' = [docHead EXCEPT !.scripts = @ + 1]
    /\ UNCHANGED <<loaderState, windowDataPrism, windowArrow, nextId, now,
                   enableFallbacks, ingestVars, providerVars, appVars>>

\* createMockDataPrism without line 508: the stub is returned but not installed
createMockDataPrism_NotInstalled(id) ==
    [returned |-> [isMock |-> TRUE, id |-> id],
     installed |-> windowDataPrism]

\* createMockDataPrism, lines 425-511: the object it returns and the object it
\* installs as window.DataPrism
createMockDataPrism(id) ==
    [returned |-> [isMock |-> TRUE, id |-> id],
     installed |-> [isMock |-> TRUE, id |-> id]]

\* lines 284-297: all retries failed
Exhausted(c, msg, head) ==
    /\ docHead' = head
    /\ IF enableFallbacks
         THEN LET mock == createMockDataPrism(nextId)
              IN /\ windowDataPrism' = mock.installed
                 /\ nextId' = nextId + 1
                 /\ loaderState' = [loaderState EXCEPT !.isLoading = FALSE]
                 /\ call' = [call EXCEPT ![c] = [@ EXCEPT !.pc = "resolved",
                               !.attempt = retries, !.lastError = msg,
                               !.result = mock.returned]]
         ELSE /\ loaderState' = [loaderState EXCEPT !.error = msg, !.isLoading = FALSE]
              /\ call' = [call EXCEPT ![c] = [@ EXCEPT !.pc = "rejected",
                            !.attempt = retries, !.lastError = msg,
                            !.error = WrappedError(msg)]]
              /\ UNCHANGED <<windowDataPrism, nextId>>

\* AttemptFailed with a wait of the same length after every failed attempt
AttemptFailed_FlatDelay(c, msg, head) ==
    IF call[c].attempt + 1 < retries
      THEN /\ call' = [call EXCEPT ![c] = [@ EXCEPT !.pc = "backoff", !.attempt = @ + 1,
                          !.lastError = msg, !.delays = Append(@, backoffStep)]]
           /\ docHead' = head
           /\ UNCHANGED <<loaderState, windowDataPrism, nextId>>
      ELSE Exhausted(c, msg, head)

\* lines 269-281: an attempt failed; head is document.head after the attempt.
\* delays records the timers of line 279, in ms
AttemptFailed(c, msg, head) ==
    IF call[c].attempt + 1 < retries
      THEN /\ call' = [call EXCEPT ![c] = [@ EXCEPT !.pc = "backoff", !.attempt = @ + 1,
                          !.lastError = msg,
                          !.delays = Append(@, backoffStep * (call[c].attempt + 1))]]
           /\ docHead' = head
           /\ UNCHANGED <<loaderState, windowDataPrism, nextId>>
      ELSE Exhausted(c, msg, head)

\* lines 258-265: the engine object is on window after the script ran
LoadSucceeded(c, win) ==
    /\ loaderState' = [loaderState EXCEPT !.isLoaded = TRUE, !.isLoading = FALSE,
                                          !.loadTime = now - call[c].startTime]
    /\ call' = [call EXCEPT ![c] = [@ EXCEPT !.pc = "resolved", !.result = win]]
    /\ windowDataPrism' = win
    /\ UNCHANGED docHead

\* script.onload, lines 315-318, then lines 257-268; the script that ran either
\* defined a new engine object on window or defined nothing
ScriptLoaded(c, defines) ==
    /\ call[c].pc = "script"
    /\ LET win == IF defines THEN [isMock |-> FALSE, id |-> nextId] ELSE windowDataPrism
       IN IF win # undefined
            THEN /\ LoadSucceeded(c, win)
                 /\ nextId' = IF defines THEN nextId + 1 ELSE nextId
            ELSE AttemptFailed(c, ErrNotFound, docHead)
    /\ UNCHANGED <<windowArrow, now, enableFallbacks, ingestVars, providerVars, appVars>>

\* script.onerror, lines 320-324: the element is removed
ScriptError(c) ==
    /\ call[c].pc = "script"
    /\ AttemptFailed(c, ErrScriptError, [docHead EXCEPT !.scripts = @ - 1])
    /\ UNCHANGED <<windowArrow, now, enableFallbacks, ingestVars, providerVars, appVars>>

\* the timeout timer of loadScriptWithTimeout, lines 310-313: the element is removed
ScriptTimeout(c) ==
    /\ call[c].pc = "script"
    /\ AttemptFailed(c, ErrScriptTimeout, [docHead EXCEPT !.scripts = @ - 1])
    /\ UNCHANGED <<windowArrow, now, enableFallbacks, ingestVars, providerVars, appVars>>

\* line 279: the backoff timer fires, the loop inserts the next script element
BackoffDone(c) ==
    /\ call[c].pc = "backoff"
    /\ call' = [call EXCEPT ![c] = [@ EXCEPT !.pc = "script", !.scripts = @ + 1]]
    /\ docHead' = [docHead EXCEPT !.scripts = @ + 1]
    /\ UNCHANGED <<loaderState, windowDataPrism, windowArrow, nextId, now,
                   enableFallbacks, ingestVars, providerVars, appVars>>

\* waitForLoad, lines 377-386: an interval tick that finds isLoading false,
\* then line 229
PollTick(c) ==
    /\ call[c].pc = "waiting"
    /\ ~loaderState.isLoading
    /\ IF loaderState.isLoaded
         THEN call' = [call EXCEPT ![c] = [@ EXCEPT !.pc = "resolved",
                                                   !.result = windowDataPrism]]
         ELSE call' = [call EXCEPT ![c] = [@ EXCEPT !.pc = "rejected",
                         !.error = PlainError(IF loaderState.error # null
                                                THEN loaderState.error
                                                ELSE ErrLoadingFailed)]]
    /\ UNCHANGED <<loaderState, windowDataPrism, windowArrow, docHead, nextId, now,
                   enableFallbacks, ingestVars, providerVars, appVars>>

\* waitForLoad, lines 389-392: the 30 s timer fires before the promise settled
WaitTimeout(c) ==
    /\ call[c].pc = "waiting"
    /\ call' = [call EXCEPT ![c] = [@ EXCEPT !.pc = "rejected",
                                              !.error = PlainError(ErrWaitTimeout)]]
    /\ UNCHANGED <<loaderState, windowDataPrism, windowArrow, docHead, nextId, now,
                   enableFallbacks, ingestVars, providerVars, appVars>>

\* Date.now() advances while some call is suspended
Tick ==
    /\ now < MaxClock
    /\ \E c \in Calls : InFetch(c)
    /\ now' = now + 1
    /\ UNCHANGED <<loaderState, windowDataPrism, windowArrow, docHead, nextId, call,
                   enableFallbacks, ingestVars, providerVars, appVars>>

\* resetLoaderState, lines 406-412 ("for testing"): not a step of LoaderNext
resetLoaderState ==
    /\ loaderState' = InitialLoaderState
    /\ UNCHANGED <<windowDataPrism, windowArrow, docHead, nextId, now, call,
                   enableFallbacks, ingestVars, providerVars, appVars>>

LoaderNext ==
    \/ \E c \in Calls : LoadCall(c)
    \/ \E c \in Calls : ArrowImportOk(c)
    \/ \E c \in Calls : ArrowImportFail(c)
    \/ \E c \in Calls : PreloadDone(c)
    \/ \E c \in Calls, defines \in BOOLEAN : ScriptLoaded(c, defines)
    \/ \E c \in Calls : ScriptError(c)
    \/ \E c \in Calls : ScriptTimeout(c)
    \/ \E c \in Calls : BackoffDone(c)
    \/ \E c \in Calls : PollTick(c)
    \/ \E c \in Calls : WaitTimeout(c)
    \/ Tick

LoaderInit == LoaderIdle(TRUE) /\ IngestIdle /\ ProviderIdle /\ AppIdle

\* the loader as built: enableFallbacks = true (line 219)
LoaderSpec == LoaderInit /\ [][LoaderNext]_vars

\* the loader built with line 219 set to false: the branch of line 291
LoaderNoFallbackInit == LoaderIdle(FALSE) /\ IngestIdle /\ ProviderIdle /\ AppIdle
LoaderNoFallbackSpec == LoaderNoFallbackInit /\ [][LoaderNext]_vars

\* the loader when timers fire: the 1 s timer of preloadScript (line 346), the
\* timeout of loadScriptWithTimeout (310-313), the backoff timer (279), the
\* interval and the timeout of waitForLoad (377-392). The dynamic import of
\* line 361 has no timer
TimersFire ==
    \A c \in Calls :
      /\ WF_vars(PreloadDone(c))
      /\ WF_vars(ScriptTimeout(c))
      /\ WF_vars(BackoffDone(c))
      /\ WF_vars(PollTick(c))
      /\ WF_vars(WaitTimeout(c))
LoaderFairSpec == LoaderInit /\ [][LoaderNext]_vars /\ TimersFire

(***************************************************************************)
(* DataPrismProvider (DataPrismContext.tsx lines 12-74) as App mounts it   *)
(* (App.tsx lines 302-310): without a config prop. The default value of    *)
(* line 12, config = {}, is a new object at every render, so the effect's  *)
(* dependency [config] (line 65) differs at every render: each committed   *)
(* render is followed by the cleanup of the previous effect run and a new  *)
(* run. State updates made in one continuation are applied in one render   *)
(* (React 18), an update that changes no state value causes no render, and *)
(* the effect of a committed render runs before any other event is handled.*)
(* Effect run r calls loadDataPrismFromCDN as call r of the loader and      *)
(* creates engine r.                                                       *)
(***************************************************************************)
\* React ignores the state updates of a component that is not mounted
SetState(next) == IF mounted = "yes" THEN next ELSE provider

\* a render is committed when a state value changed; its passive effects are
\* then due: first the cleanup of the previous effect run, then the effects
Commit(next) == IF next # provider THEN "cleanup" ELSE "none"

\* the first render of the provider (lines 12-16, 74)
Mount ==
    /\ mounted = "no"
    /\ mounted' = "yes"
    /\ effectPending' = "run"
    /\ UNCHANGED <<provider, runs, engines, loaderVars, ingestVars, appVars>>

\* lines 60-64: the cleanup function of the live effect run; it calls the
\* closure of lines 45-47 only if the run has assigned it
CleanedUp ==
    [e \in Calls |-> IF runs[e].live /\ runs[e].cleanup
                       THEN [engines[e] EXCEPT !.cleanups = @ + 1]
                       ELSE engines[e]]
Retired == [r \in Calls |-> [runs[r] EXCEPT !.live = FALSE]]

\* after a committed render: the cleanup function of the previous effect run
RunCleanup ==
    /\ mounted = "yes"
    /\ effectPending = "cleanup"
    /\ engines' = CleanedUp
    /\ runs' = Retired
    /\ effectPending' = "run"
    /\ UNCHANGED <<mounted, provider, loaderVars, ingestVars, appVars>>

\* the effect body, lines 18-29 and 58: initializeDataPrism up to the call of
\* the loader
RunEffect(r) ==
    /\ mounted = "yes"
    /\ effectPending = "run"
    /\ runs[r].pc = "idle"
    /\ IF r = 1 THEN TRUE ELSE runs[r - 1].pc # "idle"
    /\ runs' = [runs EXCEPT ![r] = [pc |-> "loading", live |-> TRUE, cleanup |-> FALSE]]
    /\ provider' = [provider EXCEPT !.isLoading = TRUE, !.error = NoError]
    /\ effectPending' = Commit(provider')
    /\ loadDataPrismFromCDN(r)
    /\ UNCHANGED <<mounted, engines, now, enableFallbacks, ingestVars, appVars>>

\* the await of line 29 ends. Resolved: lines 32-37, createMockEngine and the
\* call of initialize(). Rejected: lines 48-55, setError and setIsLoading(false)
LoadSettled(r) ==
    /\ effectPending = "none"
    /\ runs[r].pc = "loading"
    /\ Settled(r)
    /\ IF call[r].pc = "resolved"
         THEN /\ engines' = [engines EXCEPT ![r] = [@ EXCEPT !.created = TRUE,
                                                             !.initCalls = @ + 1]]
              /\ runs' = [runs EXCEPT ![r] = [@ EXCEPT !.pc = "initializing"]]
              /\ UNCHANGED <<provider, effectPending>>
         ELSE /\ provider' = SetState([provider EXCEPT !.error = call[r].error,
                                          !.isLoading = FALSE])
              /\ runs' = [runs EXCEPT ![r] = [@ EXCEPT !.pc = "failed"]]
              /\ effectPending' = Commit(provider')
              /\ UNCHANGED engines
    /\ UNCHANGED <<mounted, loaderVars, ingestVars, appVars>>

\* the timer of the engine's initialize() fires (lines 89-94), then lines
\* 37-47 and 53-55: setEngine, setIsInitialized, the cleanup closure is
\* assigned, setIsLoading(false)
InitializeDone(r) ==
    /\ effectPending = "none"
    /\ runs[r].pc = "initializing"
    /\ engines' = [engines EXCEPT ![r] = [@ EXCEPT !.initialized = TRUE]]
    /\ provider' = SetState([provider EXCEPT !.engine = r, !.isInitialized = TRUE,
                                             !.isLoading = FALSE])
    /\ runs' = [runs EXCEPT ![r] = [@ EXCEPT !.pc = "done", !.cleanup = TRUE]]
    /\ effectPending' = Commit(provider')
    /\ UNCHANGED <<mounted, loaderVars, ingestVars, appVars>>

\* the provider unmounts: the cleanup function of the live effect run is called
Unmount ==
    /\ effectPending = "none"
    /\ mounted = "yes"
    /\ mounted' = "gone"
    /\ engines' = CleanedUp
    /\ runs' = Retired
    /\ UNCHANGED <<provider, effectPending, loaderVars, ingestVars, appVars>>

\* AppContent shows its content (App.tsx lines 40-66) with a chart that has
\* data; SimpleChart's effect (SimpleChart.tsx lines 18-30) calls processData
\* on the engine of the context. The effects of a child run before those of
\* the provider and after every cleanup of the same commit
ProcessData ==
    /\ effectPending \in {"none", "run"}
    /\ mounted = "yes"
    /\ ~provider.isLoading
    /\ provider.error = NoError
    /\ provider.engine # 0
    /\ engines' = [engines EXCEPT ![provider.engine] =
                     [@ EXCEPT !.processed = TRUE,
                               !.processedAfterCleanup = @ \/ engines[provider.engine].cleanups > 0]]
    /\ UNCHANGED <<mounted, provider, runs, effectPending, loaderVars, ingestVars, appVars>>

ProviderNext ==
    \/ Mount
    \/ RunCleanup
    \/ \E r \in Calls : RunEffect(r)
    \/ \E r \in Calls : LoadSettled(r)
    \/ \E r \in Calls : InitializeDone(r)
    \/ Unmount
    \/ ProcessData
    \/ \E c \in Calls : effectPending = "none" /\ ArrowImportOk(c)
    \/ \E c \in Calls : effectPending = "none" /\ ArrowImportFail(c)
    \/ \E c \in Calls : effectPending = "none" /\ PreloadDone(c)
    \/ \E c \in Calls, defines \in BOOLEAN : effectPending = "none" /\ ScriptLoaded(c, defines)
    \/ \E c \in Calls : effectPending = "none" /\ ScriptError(c)
    \/ \E c \in Calls : effectPending = "none" /\ ScriptTimeout(c)
    \/ \E c \in Calls : effectPending = "none" /\ BackoffDone(c)
    \/ \E c \in Calls : effectPending = "none" /\ PollTick(c)
    \/ \E c \in Calls : effectPending = "none" /\ WaitTimeout(c)

ProviderInit == LoaderIdle(TRUE) /\ IngestIdle /\ ProviderIdle /\ AppIdle
ProviderSpec == ProviderInit /\ [][ProviderNext]_vars

(***************************************************************************)
(* Ingestion: strings are sequences of one-character strings               *)
(***************************************************************************)
Whitespace == {" ", "\n", "\t", "\r"}
Digits == {"0", "1", "2", "3", "4", "5", "6", "7", "8", "9"}

MinOf(S) == CHOOSE x \in S : \A y \in S : x <= y
MaxOf(S) == CHOOSE x \in S : \A y \in S : x >= y
Range(f) == {f[i] : i \in DOMAIN f}

\* String.prototype.trim
trim(s) ==
    LET keep == {i \in 1..Len(s) : s[i] \notin Whitespace}
    IN IF keep = {} THEN <<>> ELSE SubSeq(s, MinOf(keep), MaxOf(keep))

\* String.prototype.split with a one-character separator
RECURSIVE split(_, _)
split(s, sep) ==
    IF \A i \in 1..Len(s) : s[i] # sep
      THEN <<s>>
      ELSE LET i == MinOf({j \in 1..Len(s) : s[j] = sep})
           IN <<SubSeq(s, 1, i - 1)>> \o split(SubSeq(s, i + 1, Len(s)), sep)

\* s.replace(/"/g, '')
stripQuotes(s) == SelectSeq(s, LAMBDA ch : ch # "\"")

\* String.prototype.toLowerCase, on the letters file names of the model use
toLowerCase(s) ==
    [i \in 1..Len(s) |->
        CASE s[i] = "C" -> "c" [] s[i] = "S" -> "s" [] s[i] = "V" -> "v"
          [] s[i] = "P" -> "p" [] s[i] = "D" -> "d" [] s[i] = "F" -> "f"
          [] s[i] = "J" -> "j" [] s[i] = "O" -> "o" [] s[i] = "N" -> "n"
          [] s[i] = "T" -> "t" [] s[i] = "X" -> "x"
          [] OTHER -> s[i]]

\* part_004 lines 54 and 95: '.' + file.name.split('.').pop()?.toLowerCase()
fileExtension(name) ==
    LET parts == split(name, ".")
    IN <<".">> \o toLowerCase(parts[Len(parts)])

ExtCsv == <<".", "c", "s", "v">>
ExtJson == <<".", "j", "s", "o", "n">>
ExtTxt == <<".", "t", "x", "t">>
\* part_004 line 13
acceptedTypes == {ExtCsv, ExtJson, ExtTxt}
\* part_004 line 14, in MB
maxSize == 10
\* part_004 line 195: data.slice(0, 10)
sampleSize == 10

\* the messages of the errors handleFile reports; ext and accepted are the
\* values the message text interpolates
ErrCsvEmpty == "CSV file is empty"
ErrTooLarge == "File too large. Maximum size: ${maxSize}MB"
ErrNotSupported == "File type ${fileExtension} not supported. Accepted types: ${acceptedTypes}"
ErrUnsupported == "Unsupported file type: ${fileExtension}"
ErrInvalidJson == "Invalid JSON format"
UploadError(msg, ext) == [message |-> msg, ext |-> ext]

DigitChar(n) == <<"0", "1", "2", "3", "4", "5", "6", "7", "8", "9">>[n + 1]
DigitValue(ch) == CHOOSE n \in 0..9 : DigitChar(n) = ch
AllDigits(s) == \A i \in 1..Len(s) : s[i] \in Digits

\* the decimal digits of a natural number (Number.prototype.toString)
RECURSIVE Decimal(_)
Decimal(n) == IF n < 10 THEN <<DigitChar(n)>> ELSE Decimal(n \div 10) \o <<DigitChar(n % 10)>>

StrTrue == <<"t", "r", "u", "e">>
StrFalse == <<"f", "a", "l", "s", "e">>
StrNull == <<"n", "u", "l", "l">>
StrInfinity == <<"I", "n", "f", "i", "n", "i", "t", "y">>

\* Number(s) of a string without exponent or radix prefix: "NaN", "finite" or
\* "Infinity". Blank text converts to 0; a sign may lead; digits may hold one
\* point
StringToNumber(s) ==
    LET t == trim(s)
        u == IF Len(t) > 0 /\ t[1] \in {"+", "-"} THEN Tail(t) ELSE t
        parts == split(u, ".")
    IN IF t = <<>> THEN "finite"
       ELSE IF u = StrInfinity THEN "Infinity"
       ELSE IF /\ Len(parts) <= 2
               /\ \A k \in 1..Len(parts) : AllDigits(parts[k])
               /\ \E k \in 1..Len(parts) : parts[k] # <<>>
              THEN "finite"
       ELSE "NaN"

\* Number(v): true is 1, false is 0, null is 0, a JSON number is finite
ToNumber(v) ==
    CASE v.t = "string" -> StringToNumber(v.s)
      [] v.t \in {"number", "boolean", "null"} -> "finite"
      [] OTHER -> "NaN"

\* IsNumeric that takes only finite numbers
IsNumeric_FiniteOnly(v) == ToNumber(v) = "finite"

\* !isNaN(Number(v)), part_004 line 200
IsNumeric(v) == ToNumber(v) # "NaN"

\* String(v) of a primitive (Date.parse converts its argument to a string)
JsToString(v) ==
    CASE v.t = "string" -> v.s
      [] v.t = "number" -> Decimal(v.n)
      [] v.t = "boolean" -> IF v.b THEN StrTrue ELSE StrFalse
      [] OTHER -> StrNull

\* the date forms of the ISO format Date.parse must read: YYYY, YYYY-MM,
\* YYYY-MM-DD
TwoDigits(s, i) == 10 * DigitValue(s[i]) + DigitValue(s[i + 1])
IsoDate(s) ==
    /\ Len(s) \in {4, 7, 10}
    /\ \A i \in 1..Len(s) : IF i \in {5, 8} THEN s[i] = "-" ELSE s[i] \in Digits
    /\ Len(s) >= 7 => TwoDigits(s, 6) \in 1..12
    /\ Len(s) = 10 => TwoDigits(s, 9) \in 1..31

\* Date.parse(s): a time value for the ISO forms, NaN for text that holds no
\* digit; what other text yields is left to the engine
DateParse(s) ==
    IF IsoDate(s) THEN "valid"
    ELSE IF \A i \in 1..Len(s) : s[i] \notin Digits THEN "NaN"
    ELSE "implementation"

\* !isNaN(Date.parse(v)), part_004 line 210
IsDate(v) ==
    LET parsed == DateParse(JsToString(v))
    IN parsed = "valid" \/ (parsed = "implementation" /\ legacyDates)

\* Object.keys(v) of a value other than null and undefined: the own keys of an
\* object, the indices of a string or an array, nothing for a number or a
\* boolean
ObjectKeys(v) ==
    CASE v.t = "object" -> v.keys
      [] v.t = "string" -> [i \in 1..Len(v.s) |-> Decimal(i - 1)]
      [] v.t = "array" -> [i \in 1..Len(v.items) |-> Decimal(i - 1)]
      [] OTHER -> <<>>

\* row[columnName] of a value other than null and undefined
GetProperty(row, columnName) ==
    CASE row.t = "object" ->
           IF \E i \in 1..Len(row.keys) : row.keys[i] = columnName
             THEN row.items[CHOOSE i \in 1..Len(row.keys) : row.keys[i] = columnName]
             ELSE JsUndefined
      [] row.t = "string" ->
           IF \E i \in 1..Len(row.s) : Decimal(i - 1) = columnName
             THEN JsString(<<row.s[CHOOSE i \in 1..Len(row.s) : Decimal(i - 1) = columnName]>>)
             ELSE JsUndefined
      [] row.t = "array" ->
           IF \E i \in 1..Len(row.items) : Decimal(i - 1) = columnName
             THEN row.items[CHOOSE i \in 1..Len(row.items) : Decimal(i - 1) = columnName]
             ELSE JsUndefined
      [] OTHER -> JsUndefined

\* reading a property of null or undefined throws
TypeError == "TypeError"

\* the cells inferColumnType tests: row[columnName] of the rows, without null,
\* undefined and ''
SampleValues(rows, columnName) ==
    SelectSeq([i \in 1..Len(rows) |-> GetProperty(rows[i], columnName)],
              LAMBDA v : v.t \notin {"null", "undefined"} /\ v # JsString(<<>>))

\* the decision of inferColumnType over the sampled cells, part_004 lines
\* 197-214
TypeOfSample(sampleValues) ==
    IF Len(sampleValues) = 0 THEN "string"
    ELSE IF \A i \in 1..Len(sampleValues) : IsNumeric(sampleValues[i]) THEN "number"
    ELSE IF \A i \in 1..Len(sampleValues) :
               \/ sampleValues[i] \in {JsString(StrTrue), JsString(StrFalse)}
               \/ sampleValues[i].t = "boolean"
           THEN "boolean"
    ELSE IF \A i \in 1..Len(sampleValues) : IsDate(sampleValues[i]) THEN "date"
    ELSE "string"

\* inferColumnType that samples every row
inferColumnType_NoSlice(data, columnName) ==
    IF \E i \in 1..Len(data) : data[i].t \in {"null", "undefined"}
      THEN TypeError
      ELSE TypeOfSample(SampleValues(data, columnName))

\* inferColumnType, part_004 lines 194-215; data is a sequence of values, the
\* result is the type, or TypeError when a sampled row is null
inferColumnType(data, columnName) ==
    LET firstRows == SubSeq(data, 1, IF Len(data) < sampleSize THEN Len(data) ELSE sampleSize)
    IN IF \E i \in 1..Len(firstRows) : firstRows[i].t \in {"null", "undefined"}
         THEN TypeError
         ELSE TypeOfSample(SampleValues(firstRows, columnName))

\* line.split(',').map(v => v.trim().replace(/"/g, '')), part_004 lines 115, 117
splitFields(line) ==
    LET raw == split(line, ",")
    IN [i \in 1..Len(raw) |-> stripQuotes(trim(raw[i]))]

\* csvLines without the trim
csvLines_NoTrim(text) == split(text, "\n")

\* text.trim().split('\n'), part_004 line 110
csvLines(text) == split(trim(text), "\n")

\* part_004 lines 117-122: the row object of one data line. Its keys are the
\* header names in the order of their first occurrence; a header name that
\* occurs twice keeps the value of its last position
csvRow(headers, line) ==
    LET values == splitFields(line)
        first == SelectSeq([i \in 1..Len(headers) |-> i],
                           LAMBDA i : \A j \in 1..(i - 1) : headers[j] # headers[i])
    IN JsObject([k \in 1..Len(first) |-> headers[first[k]]],
                [k \in 1..Len(first) |->
                    LET index == MaxOf({i \in 1..Len(headers) : headers[i] = headers[first[k]]})
                    IN JsString(IF index <= Len(values) THEN values[index] ELSE <<>>)])

\* parseCSV, part_004 lines 109-141. memoryUsage is kept as the byte count
\* of the text (the code divides it by 1024 * 1024)
parseCSV(text) ==
    LET lines == csvLines(text)
    IN IF Len(lines) = 0
         THEN [ok |-> FALSE, message |-> ErrCsvEmpty, ext |-> <<>>, dataset |-> NoDataset]
         ELSE LET headers == splitFields(lines[1])
                  data == [k \in 1..(Len(lines) - 1) |-> csvRow(headers, lines[k + 1])]
                  columns == [i \in 1..Len(headers) |->
                                [name |-> headers[i],
                                 type |-> inferColumnType(data, headers[i]),
                                 nullable |-> TRUE]]
              IN [ok |-> TRUE, message |-> null, ext |-> <<>>,
                  dataset |-> [data |-> data, columns |-> columns, errors |-> <<>>,
                               summary |-> [rowCount |-> Len(data),
                                            columnCount |-> Len(headers),
                                            memoryUsageBytes |-> Len(text)]]]

\* the value of a run of digits
RECURSIVE NumberValue(_)
NumberValue(s) ==
    IF Len(s) = 1 THEN DigitValue(s[1])
    ELSE 10 * NumberValue(SubSeq(s, 1, Len(s) - 1)) + DigitValue(s[Len(s)])

\* JSON.parse(text), part_004 line 145. A text that opens an array or an
\* object yields the structure the file's text denotes (f.json); any other
\* text is read here: the literals true, false, null, a string without
\* escapes, a run of digits; everything else is a SyntaxError
JSONparse(f) ==
    LET t == trim(f.text)
        inner == SubSeq(t, 2, Len(t) - 1)
        SyntaxError == [ok |-> FALSE, value |-> JsUndefined]
    IN IF t = <<>> THEN SyntaxError
       ELSE IF t[1] \in {"[", "{"}
              THEN [ok |-> f.json.t \in {"array", "object"}, value |-> f.json]
       ELSE IF t = StrTrue THEN [ok |-> TRUE, value |-> JsBoolean(TRUE)]
       ELSE IF t = StrFalse THEN [ok |-> TRUE, value |-> JsBoolean(FALSE)]
       ELSE IF t = StrNull THEN [ok |-> TRUE, value |-> JsNull]
       ELSE IF /\ Len(t) >= 2
               /\ t[1] = "\""
               /\ t[Len(t)] = "\""
               /\ \A i \in 1..Len(inner) : inner[i] \notin {"\"", "\\", "\n", "\t", "\r"}
              THEN [ok |-> TRUE, value |-> JsString(inner)]
       ELSE IF AllDigits(t) /\ (Len(t) = 1 \/ t[1] # "0")
              THEN [ok |-> TRUE, value |-> JsNumber(NumberValue(t))]
       ELSE SyntaxError

\* sampleRow that takes the last row
sampleRow_Last(data) == data[Len(data)]

\* const sampleRow = data[0], part_004 line 153
sampleRow(data) == data[1]

\* parseJSON, part_004 lines 143-173. Every throw inside the try block, the
\* 'JSON file contains no data' of line 149 included, is replaced by the
\* catch of line 170
parseJSON(f) ==
    LET parsed == JSONparse(f)
        data == IF parsed.value.t = "array" THEN parsed.value.items ELSE <<parsed.value>>
        Invalid == [ok |-> FALSE, message |-> ErrInvalidJson, ext |-> <<>>,
                    dataset |-> NoDataset]
    IN IF ~parsed.ok THEN Invalid
       ELSE IF Len(data) = 0 THEN Invalid
       ELSE IF sampleRow(data).t \in {"null", "undefined"} THEN Invalid
       ELSE LET columnNames == ObjectKeys(sampleRow(data))
                columns == [i \in 1..Len(columnNames) |->
                              [name |-> columnNames[i],
                               type |-> inferColumnType(data, columnNames[i]),
                               nullable |-> TRUE]]
            IN IF \E i \in 1..Len(columns) : columns[i].type = TypeError THEN Invalid
               ELSE [ok |-> TRUE, message |-> null, ext |-> <<>>,
                     dataset |-> [data |-> data, columns |-> columns, errors |-> <<>>,
                                  summary |-> [rowCount |-> Len(data),
                                               columnCount |-> Len(columnNames),
                                               memoryUsageBytes |-> Len(f.text)]]]

StrId == <<"i", "d">>
StrText == <<"t", "e", "x", "t">>

\* txtLines that keeps blank lines
txtLines_KeepBlank(text) == split(trim(text), "\n")

\* text.trim().split('\n').filter(line => line.trim()), part_004 line 176
txtLines(text) == SelectSeq(split(trim(text), "\n"), LAMBDA line : trim(line) # <<>>)

\* parseTXT, part_004 lines 175-192
parseTXT(text) ==
    LET lines == txtLines(text)
        data == [i \in 1..Len(lines) |->
                    JsObject(<<StrId, StrText>>, <<JsNumber(i), JsString(lines[i])>>)]
    IN [ok |-> TRUE, message |-> null, ext |-> <<>>,
        dataset |-> [data |-> data,
                     columns |-> <<[name |-> StrId, type |-> "number", nullable |-> FALSE],
                                   [name |-> StrText, type |-> "string", nullable |-> FALSE]>>,
                     errors |-> <<>>,
                     summary |-> [rowCount |-> Len(data), columnCount |-> 2,
                                  memoryUsageBytes |-> Len(text)]]]

\* parseFile, part_004 lines 93-107
parseFile(f) ==
    CASE fileExtension(f.name) = ExtCsv -> parseCSV(f.text)
      [] fileExtension(f.name) = ExtJson -> parseJSON(f)
      [] fileExtension(f.name) = ExtTxt -> parseTXT(f.text)
      [] OTHER -> [ok |-> FALSE, message |-> ErrUnsupported, ext |-> fileExtension(f.name),
                   dataset |-> NoDataset]

(***************************************************************************)
(* Ingestion: the files of the model                                       *)
(***************************************************************************)
Names == {<<"a">>, <<"b">>}
Values == {<<>>, <<"a">>}

RECURSIVE join(_, _)
join(parts, sep) ==
    IF Len(parts) = 0 THEN <<>>
    ELSE IF Len(parts) = 1 THEN parts[1]
    ELSE parts[1] \o <<sep>> \o join(Tail(parts), sep)

SeqsUpTo(S, lo, hi) == UNION {[1..n -> S] : n \in lo..hi}

\* the text of a CSV document: a header of names, data lines of one value per
\* name, fields optionally padded with blanks, an optional final newline
renderCSV(header, rows, pad, finalNewline) ==
    LET field(v) == IF pad THEN <<" ">> \o v \o <<" ">> ELSE v
        line(fs) == join([i \in 1..Len(fs) |-> field(fs[i])], ",")
    IN join(<<line(header)>> \o [k \in 1..Len(rows) |-> line(rows[k])], "\n")
       \o (IF finalNewline THEN <<"\n">> ELSE <<>>)

\* no data line of a well-formed document is blank
WellFormedRows(n) ==
    {rows \in SeqsUpTo([1..n -> Values], 0, MaxRows) :
        \A k \in 1..Len(rows) : \E i \in 1..n : rows[k][i] # <<>>}

Alphabet == {"a", ",", "\n", " ", "\""}
ShortTexts == SeqsUpTo(Alphabet, 0, MaxTextLen)

\* the text of a CSV document whose fields are all quoted
renderQuoted(header, rows) ==
    LET field(v) == <<"\"">> \o v \o <<"\"">>
        line(fs) == join([i \in 1..Len(fs) |-> field(fs[i])], ",")
    IN join(<<line(header)>> \o [k \in 1..Len(rows) |-> line(rows[k])], "\n")

\* values of quoted fields: with and without a comma inside
QuotedValues == {<<"a">>, <<"a", ",", " ", "b">>}
QuotedHeader == <<<<"a">>, <<"b">>>>

\* cell texts of a one-column document: a number, a word, a boolean, an ISO
\* date, Infinity, digits outside the ISO date format, nothing
StrDate == <<"2", "0", "2", "4", "-", "0", "1", "-", "1", "5">>
Tokens == {<<"2", "5">>, <<"a">>, StrTrue, StrDate, StrInfinity, <<"1", "-", "2">>, <<>>}

\* run copies of p followed by tail copies of q, one cell per row
ColumnRows(p, run, q, tail) ==
    [k \in 1..(run + tail) |-> IF k <= run THEN <<p>> ELSE <<q>>]

\* the document of the test 'infers column types correctly'
ExampleHeader == <<<<"n", "a", "m", "e">>, <<"a", "g", "e">>,
                   <<"a", "c", "t", "i", "v", "e">>,
                   <<"j", "o", "i", "n", "D", "a", "t", "e">>>>
ExampleRows ==
    <<<<<<"A", "l", "i", "c", "e">>, <<"2", "5">>, StrTrue, StrDate>>,
      <<<<"B", "o", "b">>, <<"3", "0">>, StrFalse,
        <<"2", "0", "2", "4", "-", "0", "2", "-", "2", "0">>>>>>

\* JSON documents: records over the names whose cells are all one of three
\* scalars; lists of records, numbers and nulls; the document of the test
\* 'processes JSON file correctly'
JsonCells == {JsNumber(1), JsString(<<"a">>), JsBoolean(TRUE)}
KeyLists == {k \in SeqsUpTo(Names, 0, MaxCols) :
                \A i, j \in 1..Len(k) : k[i] = k[j] => i = j}
JsonRecords == {JsObject(k, [i \in 1..Len(k) |-> cell]) : k \in KeyLists, cell \in JsonCells}
JsonItems == JsonRecords \cup {JsNumber(1), JsNull}
JsonScalars == {JsNumber(42), JsString(<<"a">>), JsBoolean(TRUE), JsBoolean(FALSE), JsNull}
JsonLists == {JsArray(items) : items \in SeqsUpTo(JsonItems, 0, MaxJsonRows)}
ExampleKeys == <<<<"p", "r", "o", "d", "u", "c", "t">>, <<"p", "r", "i", "c", "e">>,
                 <<"i", "n", "S", "t", "o", "c", "k">>>>
ExampleJson ==
    JsArray(<<JsObject(ExampleKeys, <<JsString(<<"L", "a", "p", "t", "o", "p">>),
                                      JsNumber(999), JsBoolean(TRUE)>>),
              JsObject(ExampleKeys, <<JsString(<<"M", "o", "u", "s", "e">>),
                                      JsNumber(29), JsBoolean(FALSE)>>)>>)
JsonDocuments == JsonScalars \cup JsonRecords \cup JsonLists \cup {ExampleJson}

\* JSON.stringify(v)
RECURSIVE stringify(_)
stringify(v) ==
    CASE v.t = "string" -> <<"\"">> \o v.s \o <<"\"">>
      [] v.t = "number" -> Decimal(v.n)
      [] v.t = "boolean" -> IF v.b THEN StrTrue ELSE StrFalse
      [] v.t = "object" ->
           <<"{">> \o join([i \in 1..Len(v.keys) |->
                               <<"\"">> \o v.keys[i] \o <<"\"", ":">> \o stringify(v.items[i])],
                           ",") \o <<"}">>
      [] v.t = "array" ->
           <<"[">> \o join([i \in 1..Len(v.items) |-> stringify(v.items[i])], ",") \o <<"]">>
      [] OTHER -> StrNull

\* lines of a text document: words, padded words, blank lines
TxtLineSet == {<<"a">>, <<" ", "a">>, <<"b", " ">>, <<" ">>, <<>>}

NameCsv == <<"d", ".", "c", "s", "v">>
NameCsvUpper == <<"D", ".", "C", "S", "V">>
NamePdf == <<"d", ".", "p", "d", "f">>
NameJson == <<"d", ".", "j", "s", "o", "n">>
NameTxt == <<"d", ".", "T", "x", "t">>
NameTwoDots == <<"d", ".", "c", "s", "v", ".", "p", "d", "f">>
NameNoDot == <<"c", "s", "v">>
NameNoExt == <<"d", ".">>
FileNames == {NameCsv, NameCsvUpper, NamePdf}
AllNames == FileNames \cup {NameJson, NameTxt, NameTwoDots, NameNoDot, NameNoExt}

TooLarge == maxSize * 1024 * 1024 + 1

(***************************************************************************)
(* Ingestion: handleFile                                                   *)
(***************************************************************************)
\* the file, its provenance and the engine's date parser after the user
\* picked a file
Selected(name, text, size, json, d, legacy) ==
    /\ file' = [name |-> name, text |-> text, size |-> size, json |-> json]
    /\ doc' = d
    /\ legacyDates' = legacy

\* the user picks a file: a generated CSV, JSON or text document or an
\* arbitrary short text; a file over the size ceiling is known by its size
\* alone. The engine's date parser is chosen where the text holds digits
SelectFile ==
    /\ stage = "none"
    /\ \/ \E name \in FileNames, header \in SeqsUpTo(Names, 1, MaxCols),
             pad \in BOOLEAN, nl \in BOOLEAN :
            \E rows \in WellFormedRows(Len(header)) :
               LET text == renderCSV(header, rows, pad, nl)
               IN Selected(name, text, Len(text), JsNull,
                           [kind |-> "csv", wellFormed |-> TRUE, header |-> header,
                            rows |-> rows], FALSE)
       \/ \E name \in AllNames, text \in ShortTexts, large \in BOOLEAN :
            Selected(name, text, IF large THEN TooLarge ELSE Len(text), JsNull, NoDoc, FALSE)
       \/ \E rows \in SeqsUpTo([1..2 -> QuotedValues], 1, MaxRows) :
            LET text == renderQuoted(QuotedHeader, rows)
            IN Selected(NameCsv, text, Len(text), JsNull,
                        [kind |-> "quoted", wellFormed |-> FALSE, header |-> QuotedHeader,
                         rows |-> rows], FALSE)
       \/ \E p \in Tokens, q \in Tokens, run \in 0..MaxRun, tail \in 0..MaxTail,
             legacy \in BOOLEAN :
            LET rows == ColumnRows(p, run, q, tail)
                text == renderCSV(<<<<"a">>>>, rows, FALSE, FALSE)
            IN Selected(NameCsv, text, Len(text), JsNull,
                        [kind |-> "column", wellFormed |-> FALSE, header |-> <<<<"a">>>>,
                         rows |-> rows], legacy)
       \/ \E legacy \in BOOLEAN :
            LET text == renderCSV(ExampleHeader, ExampleRows, FALSE, FALSE)
            IN Selected(NameCsv, text, Len(text), JsNull,
                        [kind |-> "example", wellFormed |-> FALSE, header |-> ExampleHeader,
                         rows |-> ExampleRows], legacy)
       \/ \E v \in JsonDocuments :
            \E malformed \in IF v \in JsonScalars \cup JsonRecords THEN BOOLEAN ELSE {FALSE} :
            LET whole == stringify(v)
                text == IF malformed THEN <<"{", " ">> \o whole ELSE whole
            IN Selected(NameJson, text, Len(text),
                        IF malformed \/ v.t \notin {"array", "object"} THEN JsNull ELSE v,
                        [kind |-> IF malformed THEN "badjson" ELSE "json",
                         wellFormed |-> FALSE, header |-> <<>>,
                         rows |-> <<v>>], FALSE)
       \/ \E lines \in SeqsUpTo(TxtLineSet, 0, MaxLines) :
            LET text == join(lines, "\n")
            IN Selected(NameTxt, text, Len(text), JsNull,
                        [kind |-> "txt", wellFormed |-> FALSE, header |-> <<>>,
                         rows |-> lines], FALSE)
    /\ stage' = "selected"
    /\ UNCHANGED <<uploading, error, delivered, textRead, loaderVars, providerVars, appVars>>

\* HandleFileStart without the check of the file type
HandleFileStart_NoTypeCheck ==
    /\ stage = "selected"
    /\ IF file.size > maxSize * 1024 * 1024
         THEN /\ error' = UploadError(ErrTooLarge, <<>>)
              /\ uploading' = FALSE
              /\ stage' = "done"
         ELSE /\ error' = NoUploadError
              /\ uploading' = TRUE
              /\ stage' = "reading"
    /\ UNCHANGED <<file, doc, delivered, textRead, legacyDates, loaderVars, providerVars, appVars>>

\* handleFile, part_004 lines 48-73: up to the suspension in file.text()
HandleFileStart ==
    /\ stage = "selected"
    /\ IF fileExtension(file.name) \notin acceptedTypes
         THEN /\ error' = UploadError(ErrNotSupported, fileExtension(file.name))
              /\ uploading' = FALSE
              /\ stage' = "done"
         ELSE IF file.size > maxSize * 1024 * 1024
         THEN /\ error' = UploadError(ErrTooLarge, <<>>)
              /\ uploading' = FALSE
              /\ stage' = "done"
         ELSE /\ error' = NoUploadError
              /\ uploading' = TRUE
              /\ stage' = "reading"
    /\ UNCHANGED <<file, doc, delivered, textRead, legacyDates, loaderVars, providerVars, appVars>>

\* handleFile, part_004 lines 73-90: file.text() resolved, parse and deliver;
\* elapsed is Date.now() - startTime
HandleFileRead(elapsed) ==
    /\ stage = "reading"
    /\ LET parsed == parseFile(file)
       IN IF parsed.ok
            THEN /\ delivered' = Append(delivered,
                      [parsed.dataset EXCEPT !.summary =
                          [rowCount |-> @.rowCount, columnCount |-> @.columnCount,
                           memoryUsageBytes |-> @.memoryUsageBytes,
                           processingTime |-> elapsed]])
                 /\ error' = error
            ELSE /\ error' = UploadError(parsed.message, parsed.ext)
                 /\ delivered' = delivered
    /\ uploading' = FALSE
    /\ stage' = "done"
    /\ textRead' = TRUE
    /\ UNCHANGED <<file, doc, legacyDates, loaderVars, providerVars, appVars>>

IngestNext ==
    \/ SelectFile
    \/ HandleFileStart
    \/ \E elapsed \in 0..MaxClock : HandleFileRead(elapsed)

IngestInit == LoaderIdle(TRUE) /\ IngestIdle /\ ProviderIdle /\ AppIdle
IngestSpec == IngestInit /\ [][IngestNext]_vars

(***************************************************************************)
(* AppContent (App.tsx lines 10-38, 100-220) with its FileUpload, while it *)
(* shows its content: calls of handleFile may overlap, because the drop    *)
(* zone stays active while a file is read; upload u is the u-th file       *)
(* submitted.                                                              *)
(***************************************************************************)
MkFile(name, text) == [name |-> name, text |-> text, size |-> Len(text), json |-> JsNull]

\* the files the user submits: CSV files with the columns a,b / b,c / c and a
\* file of a type that is not accepted
FileAB == MkFile(NameCsv, <<"a", ",", "b", "\n", "1", ",", "2">>)
FileBC == MkFile(NameCsv, <<"b", ",", "c", "\n", "3", ",", "4">>)
FileC == MkFile(NameCsv, <<"c", "\n", "5">>)
FilePdf == MkFile(NamePdf, <<"x">>)
AppFiles == {FileAB, FileBC, FileC, FilePdf}

StrBy == <<" ", "b", "y", " ">>

\* handleFileUpload that sets the two fields but keeps the previous title
handleFileUpload_KeepsTitle(data, u) ==
    [uploadedData |-> [from |-> u, dataset |-> data],
     chartConfig |-> IF Len(data.columns) >= 2
                       THEN [chartConfig EXCEPT !.xField = data.columns[1].name,
                                                !.yField = data.columns[2].name]
                       ELSE chartConfig]

\* handleFileUpload, App.tsx lines 22-34: the state after the two updates
handleFileUpload(data, u) ==
    [uploadedData |-> [from |-> u, dataset |-> data],
     chartConfig |-> IF Len(data.columns) >= 2
                       THEN [chartConfig EXCEPT
                               !.xField = data.columns[1].name,
                               !.yField = data.columns[2].name,
                               !.title = data.columns[2].name \o StrBy
                                           \o data.columns[1].name]
                       ELSE chartConfig]

\* App.tsx line 206: the chart is rendered
ChartRendered ==
    /\ uploadedData.from # 0
    /\ chartConfig.xField # <<>>
    /\ chartConfig.yField # <<>>

\* handleChange (part_004 lines 41-46; the input is disabled while uploading,
\* line 237) or handleDrop (lines 31-39), then handleFile lines 48-73 up to
\* the suspension in file.text()
Submit(u, f, dropped) ==
    /\ uploads[u].pc = "idle"
    /\ IF u = 1 THEN TRUE ELSE uploads[u - 1].pc # "idle"
    /\ dropped \/ ~uploading
    /\ IF fileExtension(f.name) \notin acceptedTypes
         THEN /\ error' = UploadError(ErrNotSupported, fileExtension(f.name))
              /\ uploading' = FALSE
              /\ uploads' = [uploads EXCEPT ![u] = [pc |-> "done", file |-> f]]
         ELSE IF f.size > maxSize * 1024 * 1024
         THEN /\ error' = UploadError(ErrTooLarge, <<>>)
              /\ uploading' = FALSE
              /\ uploads' = [uploads EXCEPT ![u] = [pc |-> "done", file |-> f]]
         ELSE /\ error' = NoUploadError
              /\ uploading' = TRUE
              /\ uploads' = [uploads EXCEPT ![u] = [pc |-> "reading", file |-> f]]
    /\ UNCHANGED <<file, stage, delivered, doc, textRead, legacyDates, uploadedData,
                   chartConfig, loaderVars, providerVars>>

\* handleFile, part_004 lines 73-90, with App's handleFileUpload as
\* onFileUpload: file.text() of upload u resolved; elapsed is Date.now() -
\* startTime
ReadDone(u, elapsed) ==
    /\ uploads[u].pc = "reading"
    /\ LET parsed == parseFile(uploads[u].file)
           result == [parsed.dataset EXCEPT !.summary =
                         [rowCount |-> @.rowCount, columnCount |-> @.columnCount,
                          memoryUsageBytes |-> @.memoryUsageBytes,
                          processingTime |-> elapsed]]
       IN IF parsed.ok
            THEN /\ delivered' = Append(delivered, result)
                 /\ uploadedData' = handleFileUpload(result, u).uploadedData
                 /\ chartConfig' = handleFileUpload(result, u).chartConfig
                 /\ error' = error
            ELSE /\ error' = UploadError(parsed.message, parsed.ext)
                 /\ UNCHANGED <<delivered, uploadedData, chartConfig>>
    /\ uploading' = FALSE
    /\ uploads' = [uploads EXCEPT ![u] = [@ EXCEPT !.pc = "done"]]
    /\ UNCHANGED <<file, stage, doc, textRead, legacyDates, loaderVars, providerVars>>

\* the values the chart settings offer (App.tsx lines 135-194): three chart
\* types, for each axis no field or a column of the dataset shown, and a
\* title the user types
ColumnNames(data) == {data.columns[i].name : i \in 1..Len(data.columns)}
SettingValues(field) ==
    CASE field = "type" -> {"bar", "line", "pie"}
      [] field \in {"xField", "yField"} -> {<<>>} \cup ColumnNames(uploadedData.dataset)
      [] field = "title" -> {<<"t">>}

\* handleChartConfigChange, App.tsx lines 36-38; the settings are shown once a
\* dataset is there (line 128)
ChartConfigChange(field, value) ==
    /\ uploadedData.from # 0
    /\ chartConfig' = [chartConfig EXCEPT ![field] = value]
    /\ UNCHANGED <<uploads, uploadedData, ingestVars, loaderVars, providerVars>>

AppNext ==
    \/ \E u \in Uploads, f \in AppFiles, dropped \in BOOLEAN : Submit(u, f, dropped)
    \/ \E u \in Uploads : ReadDone(u, 0)
    \/ \E field \in {"type", "xField", "yField", "title"} :
         \E value \in SettingValues(field) : ChartConfigChange(field, value)

AppInit == LoaderIdle(TRUE) /\ IngestIdle /\ ProviderIdle /\ AppIdle
AppSpec == AppInit /\ [][AppNext]_vars

(***************************************************************************)
(* Loader claims                                                           *)
(***************************************************************************)
WaitTimedOut(d) == call[d].pc = "rejected" /\ call[d].error = PlainError(ErrWaitTimeout)
\* call c ran the fetch section and ended with the stub substituted
EndedByFallback(c) ==
    call[c].pc = "resolved" /\ call[c].via = "fresh" /\ call[c].attempt = retries

\* C1: when a call d is issued while the load of call c is in flight and c ends
\* successfully (real engine or stub), d runs no dependency check, preload or
\* script insertion of its own and resolves with the very handle c resolved
\* with. (A waiter whose 30 s wait timer fired is not constrained here.)
C1_ConcurrentCallsShareHandle ==
    \A c, d \in Calls :
        ( /\ call[d].via = "waited"
          /\ call[d].joined = c
          /\ call[c].pc = "resolved"
          /\ Settled(d)
          /\ ~WaitTimedOut(d) )
        => /\ call[d].pc = "resolved"
           /\ call[d].result = call[c].result
           /\ call[d].arrowCheck = "none"
           /\ call[d].preloads = 0
           /\ call[d].scripts = 0

\* C2: the step in which the last script attempt of a call fails, with fallback
\* enabled, resolves the call with a handle marked isMock, and that same object
\* is window.DataPrism.
C2_FallbackResolvesWithStub ==
    [][\A c \in Calls :
          ( /\ InFetch(c)
            /\ call[c].attempt < retries
            /\ call'[c].attempt = retries
            /\ enableFallbacks )
          => /\ call'[c].pc = "resolved"
             /\ call'[c].result.isMock
             /\ call'[c].result # undefined
             /\ windowDataPrism' = call'[c].result]_vars

C2_Witness ==
    \E c \in Calls :
        /\ EndedByFallback(c)
        /\ call[c].lastError = ErrNotFound
        /\ call[c].result.isMock
        /\ windowDataPrism = call[c].result

\* C3: once a load call has ended by fallback substitution the loader is
\* Loaded: getLoaderState() reports isLoaded = true, isLoading = false and
\* error = null (so no later call starts a new fetch sequence).
C3_FallbackLeavesLoaded ==
    (\E c \in Calls : EndedByFallback(c))
    => /\ getLoaderState.isLoaded = TRUE
       /\ getLoaderState.isLoading = FALSE
       /\ getLoaderState.error = null

\* C4: a load call made when isLoaded = true returns the handle installed as
\* window.DataPrism, runs no dependency check, inserts no preload or script
\* element, and leaves isLoaded, isLoading, error and loadTime unchanged.
C4_LoadedCallIsNoOp ==
    [][\A c \in Calls :
          ( /\ call[c].pc = "idle"
            /\ call'[c].pc # "idle"
            /\ loaderState.isLoaded )
          => /\ call'[c].pc = "resolved"
             /\ call'[c].result = windowDataPrism
             /\ call'[c].arrowCheck = "none"
             /\ call'[c].preloads = 0
             /\ call'[c].scripts = 0
             /\ docHead' = docHead
             /\ loaderState' = loaderState
             /\ windowDataPrism' = windowDataPrism
             /\ windowArrow' = windowArrow]_vars

C4_Witness ==
    \E c \in Calls :
        /\ call[c].via = "loaded"
        /\ call[c].pc = "resolved"
        /\ call[c].result = windowDataPrism
        /\ windowDataPrism # undefined
        /\ loaderState.loadTime >= 0

\* C5: a call d made while the load of call c is in flight settles as c does:
\* d resolves if c ended successfully, d rejects with c's error message if c
\* ended in failure, and d resolves only if c did. (A waiter whose 30 s wait
\* timer fired is not constrained here.)
C5_WaiterFollowsInFlight ==
    \A d \in Calls :
        (call[d].via = "waited" /\ Settled(d) /\ ~WaitTimedOut(d))
        => LET c == call[d].joined
           IN /\ call[c].pc = "resolved" => call[d].pc = "resolved"
              /\ call[c].pc = "rejected"
                   => /\ call[d].pc = "rejected"
                      /\ call[d].error.message = call[c].error.message
              /\ call[d].pc = "resolved" => call[c].pc = "resolved"

\* C6: with fallback disabled, the step in which the last script attempt of a
\* call fails rejects the call and leaves isLoaded = false, isLoading = false
\* and error = the message of the error of that last attempt; a call made in
\* state Failed enters the fetch section with isLoading = true and error = null.
C6_ExhaustedWithoutFallbackFails ==
    [][\A c \in Calls :
          /\ ( /\ InFetch(c)
               /\ call[c].attempt < retries
               /\ call'[c].attempt = retries
               /\ ~enableFallbacks )
             => /\ call'[c].pc = "rejected"
                /\ call'[c].lastError \in {ErrNotFound, ErrScriptError, ErrScriptTimeout}
                /\ call'[c].error = WrappedError(call'[c].lastError)
                /\ loaderState'.isLoaded = FALSE
                /\ loaderState'.isLoading = FALSE
                /\ loaderState'.error = call'[c].lastError
                /\ windowDataPrism' = windowDataPrism
          /\ ( /\ call[c].pc = "idle"
               /\ call'[c].pc # "idle"
               /\ ~loaderState.isLoaded
               /\ ~loaderState.isLoading
               /\ loaderState.error # null )
             => /\ loaderState'.isLoading = TRUE
                /\ loaderState'.error = null
                /\ InFetch(c)'
                /\ call'[c].arrowCheck # "none"]_vars

C6_Witness ==
    \E c, d \in Calls :
        /\ call[c].pc = "rejected"
        /\ call[c].attempt = retries
        /\ call[c].error = WrappedError(ErrScriptTimeout)
        /\ InFetch(d)
        /\ call[d].scripts > 0
        /\ loaderState.error = null
        /\ loaderState.isLoading

\* C7: within a fresh load call the Apache Arrow check has completed
\* successfully before any preload hint or script element is inserted; when the
\* check fails the call rejects, it has inserted nothing, no stub is installed,
\* and isLoading is false again.
C7_ArrowCheckedBeforeFetch ==
    /\ [](\A c \in Calls :
            /\ (call[c].preloads > 0 \/ call[c].scripts > 0) => call[c].arrowCheck = "ok"
            /\ call[c].pc = "arrow" => call[c].arrowCheck = "pending"
            /\ call[c].arrowCheck = "failed"
                 => /\ call[c].pc = "rejected"
                    /\ call[c].error.message = ErrArrow
                    /\ call[c].preloads = 0
                    /\ call[c].scripts = 0
                    /\ call[c].result = undefined)
    /\ [][\A c \in Calls :
            (call[c].pc = "arrow" /\ call'[c].arrowCheck = "failed")
            => /\ loaderState'.isLoading = FALSE
               /\ loaderState'.isLoaded = loaderState.isLoaded
               /\ windowDataPrism' = windowDataPrism
               /\ docHead' = docHead]_vars

C7_Witness ==
    \E c \in Calls :
        /\ call[c].arrowCheck = "failed"
        /\ call[c].pc = "rejected"
        /\ enableFallbacks
        /\ ~loaderState.isLoading
        /\ windowDataPrism = undefined

\* C8: a load call rejects only when the retries are exhausted with fallback
\* disabled; with fallback enabled every call, fresh or waiting, resolves.
\* (Rejections the loader's own contract names elsewhere, the failed Arrow
\* precondition and the 30 s wait timeout, are not counted against the claim.)
C8_OnlyExhaustionPropagates ==
    \A c \in Calls :
        call[c].pc = "rejected"
        => \/ ~enableFallbacks /\ call[c].attempt = retries
           \/ call[c].error.message \in {ErrArrow, ErrWaitTimeout}

(***************************************************************************)
(* Ingestion claims                                                        *)
(***************************************************************************)
UploadFinished ==
    /\ stage = "done"
    /\ fileExtension(file.name) = ExtCsv
    /\ file.size <= maxSize * 1024 * 1024

\* C9: for a well-formed CSV text with a header of n names and r data lines,
\* the dataset handed to onFileUpload has rowCount = r = data.length,
\* columnCount = n = columns.length, and columns names the header names in
\* header order.
C9_WellFormedCsvCounts ==
    (UploadFinished /\ doc.wellFormed)
    => /\ error = NoUploadError
       /\ Len(delivered) = 1
       /\ LET d == delivered[1]
              r == Len(doc.rows)
              n == Len(doc.header)
          IN /\ d.summary.rowCount = r
             /\ Len(d.data) = r
             /\ d.summary.columnCount = n
             /\ Len(d.columns) = n
             /\ \A i \in 1..n : d.columns[i].name = doc.header[i]

C9_Witness ==
    /\ UploadFinished
    /\ doc.wellFormed
    /\ Len(doc.header) = 2
    /\ doc.header[1] # doc.header[2]
    /\ Len(doc.rows) = 2
    /\ file.text[Len(file.text)] = "\n"
    /\ Len(delivered) = 1
    /\ delivered[1].summary.rowCount = 2

\* C10: uploading a .csv file whose text is empty, or empty after trimming
\* whitespace, reports the error 'CSV file is empty' and hands no dataset to
\* onFileUpload.
C10_EmptyCsvFails ==
    (UploadFinished /\ trim(file.text) = <<>>)
    => /\ error.message = ErrCsvEmpty
       /\ delivered = <<>>

Delivered == stage = "done" /\ Len(delivered) = 1
Ext == fileExtension(file.name)
FirstRows(data) == SubSeq(data, 1, IF Len(data) < sampleSize THEN Len(data) ELSE sampleSize)

\* the cells of column name in the first rows of a list of records
ColumnCells(records, name) ==
    {GetProperty(records[k], name) : k \in 1..Len(FirstRows(records))} \ {JsUndefined}

\* a list of one or more records
IsRecordList(v) ==
    /\ v.t = "array"
    /\ Len(v.items) >= 1
    /\ \A k \in 1..Len(v.items) : v.items[k].t = "object"

\* text that is neither a number nor a date: it holds no digit and does not
\* convert to a number
PlainText(v) ==
    /\ v.t = "string"
    /\ v.s # <<>>
    /\ StringToNumber(v.s) = "NaN"
    /\ \A i \in 1..Len(v.s) : v.s[i] \notin Digits

\* C11: for a .json file holding a list of records, the dataset is delivered
\* and a column whose sampled values are all JSON booleans has type boolean, a
\* column of JSON numbers has type number, a column of non-numeric text has
\* type string.
C11_JsonColumnTypes ==
    (stage = "done" /\ Ext = ExtJson /\ doc.kind = "json" /\ IsRecordList(doc.rows[1]))
    => /\ Len(delivered) = 1
       /\ \A i \in 1..Len(delivered[1].columns) :
            LET column == delivered[1].columns[i]
                cells == ColumnCells(doc.rows[1].items, column.name)
            IN /\ (cells # {} /\ \A v \in cells : v.t = "boolean") => column.type = "boolean"
               /\ (cells # {} /\ \A v \in cells : v.t = "number") => column.type = "number"
               /\ (cells # {} /\ \A v \in cells : PlainText(v)) => column.type = "string"

\* the stated rule over a sample of cells; numbers holds what a cell may
\* convert to for the sample to count as numeric
RuleType(sample, numbers) ==
    IF Len(sample) = 0 THEN "string"
    ELSE IF \A i \in 1..Len(sample) : ToNumber(sample[i]) \in numbers THEN "number"
    ELSE IF \A i \in 1..Len(sample) :
               \/ sample[i].t = "boolean"
               \/ sample[i].t = "string" /\ sample[i].s \in {StrTrue, StrFalse}
           THEN "boolean"
    ELSE IF \A i \in 1..Len(sample) : IsDate(sample[i]) THEN "date"
    ELSE "string"

\* every delivered column has the type the rule gives for the non-null,
\* non-empty cells of the first ten rows
InferredByRule(numbers) ==
    (Delivered /\ Ext \in {ExtCsv, ExtJson})
    => \A i \in 1..Len(delivered[1].columns) :
         LET column == delivered[1].columns[i]
             rows == FirstRows(delivered[1].data)
             cells == [k \in 1..Len(rows) |-> GetProperty(rows[k], column.name)]
             sample == SelectSeq(cells, LAMBDA v : v.t \notin {"null", "undefined"}
                                                  /\ ~(v.t = "string" /\ v.s = <<>>))
         IN column.type = RuleType(sample, numbers)

ExampleTyped ==
    (Delivered /\ doc.kind = "example")
    => [i \in 1..Len(delivered[1].columns) |-> delivered[1].columns[i].type]
         = <<"string", "number", "boolean", "date">>

TenNumbersThenWord ==
    /\ doc.kind = "column"
    /\ Len(doc.rows) > sampleSize
    /\ \A k \in 1..sampleSize : doc.rows[k] = <<<<"2", "5">>>>
    /\ doc.rows[sampleSize + 1] = <<<<"a">>>>

\* C13: the type of every column is the type inferred from the first ten rows
\* alone, so two datasets that agree on their first ten rows get the same
\* types; a column of ten numeric strings followed by a non-numeric eleventh
\* value is typed number.
C13_OnlyFirstTenRows ==
    (Delivered /\ Ext \in {ExtCsv, ExtJson})
    => /\ \A i \in 1..Len(delivered[1].columns) :
            delivered[1].columns[i].type
              = inferColumnType(FirstRows(delivered[1].data), delivered[1].columns[i].name)
       /\ TenNumbersThenWord => delivered[1].columns[1].type = "number"

C13_Witness ==
    /\ Delivered
    /\ TenNumbersThenWord
    /\ Len(delivered[1].data) = sampleSize + 1
    /\ delivered[1].columns[1].type = "number"

HasDot(name) == \E i \in 1..Len(name) : name[i] = "."
\* '.' and the lower-cased substring after the last '.' of a name that has one
ExtensionAfterLastDot(name) ==
    LET last == MaxOf({i \in 1..Len(name) : name[i] = "."})
    IN <<".">> \o toLowerCase(SubSeq(name, last + 1, Len(name)))

\* C14: for a file whose extension (the substring after the last '.',
\* lower-cased) is none of .csv, .json, .txt the upload ends with the
\* unsupported-format error naming that extension and the accepted set, the
\* contents of the file are never read and onFileUpload is not called.
C14_UnsupportedRejectedBeforeRead ==
    /\ (HasDot(file.name) /\ ExtensionAfterLastDot(file.name) \notin {ExtCsv, ExtJson, ExtTxt})
       => /\ ~textRead
          /\ stage # "reading"
          /\ delivered = <<>>
          /\ stage = "done" => /\ error = UploadError(ErrNotSupported,
                                                      ExtensionAfterLastDot(file.name))
                               /\ ~uploading
    /\ error.message = ErrNotSupported => error.ext \notin acceptedTypes

C14_Witness ==
    /\ stage = "done"
    /\ file.name = NameTwoDots
    /\ file.text # <<>>
    /\ error = UploadError(ErrNotSupported, <<".", "p", "d", "f">>)
    /\ ~textRead
    /\ delivered = <<>>

\* a delivered dataset has its four parts, the processing time in its summary
\* and counts that fit its data and columns
CompleteDataset(d) ==
    /\ DOMAIN d = {"data", "columns", "errors", "summary"}
    /\ DOMAIN d.summary = {"rowCount", "columnCount", "memoryUsageBytes", "processingTime"}
    /\ d.summary.rowCount = Len(d.data)
    /\ d.summary.columnCount = Len(d.columns)

\* the inputs the claim lists as failing
ListedFailure ==
    \/ Ext \notin acceptedTypes
    \/ file.size > maxSize * 1024 * 1024
    \/ Ext = ExtCsv /\ trim(file.text) = <<>>
    \/ Ext = ExtJson /\ doc.kind = "badjson"

\* C15: when handleFile has ended, uploading is false and exactly one of two
\* outcomes holds: onFileUpload was called exactly once with a complete
\* dataset and no error message is set, or an error message is set and
\* onFileUpload was not called; an unsupported extension, a file over maxSize
\* MB (message 'File too large. Maximum size: <maxSize>MB'), an empty CSV and
\* malformed JSON end in the second outcome.
C15_DatasetOrError ==
    stage = "done"
    => /\ ~uploading
       /\ \/ /\ Len(delivered) = 1
             /\ CompleteDataset(delivered[1])
             /\ error = NoUploadError
          \/ /\ delivered = <<>>
             /\ error.message # null
       /\ ListedFailure => (delivered = <<>> /\ error.message # null)
       /\ (Ext \in acceptedTypes /\ file.size > maxSize * 1024 * 1024)
            => error.message = ErrTooLarge

\* C16: in every delivered dataset (CSV, JSON, TXT) every row holds a value
\* for every column name of columns.
C16_RowsCoverColumns ==
    Delivered
    => \A k \in 1..Len(delivered[1].data), i \in 1..Len(delivered[1].columns) :
         GetProperty(delivered[1].data[k], delivered[1].columns[i].name) # JsUndefined

\* C17: for a .json file whose top-level value is a list of k >= 1 records
\* the delivered data is exactly those k elements in order and rowCount = k;
\* for a single record the data is the one-element list of it and rowCount =
\* 1; in both cases the column names are the first row's own keys in key
\* order and columnCount is their number.
C17_JsonShape ==
    (stage = "done" /\ Ext = ExtJson /\ doc.kind = "json"
       /\ (IsRecordList(doc.rows[1]) \/ doc.rows[1].t = "object"))
    => /\ Len(delivered) = 1
       /\ LET d == delivered[1]
              records == IF doc.rows[1].t = "object" THEN <<doc.rows[1]>>
                         ELSE doc.rows[1].items
          IN /\ d.data = records
             /\ d.summary.rowCount = Len(records)
             /\ [i \in 1..Len(d.columns) |-> d.columns[i].name] = records[1].keys
             /\ d.summary.columnCount = Len(records[1].keys)

\* a list whose second record has a key the first lacks, and other key order
C17_Witness ==
    /\ Delivered
    /\ doc.kind = "json"
    /\ IsRecordList(doc.rows[1])
    /\ Len(doc.rows[1].items) = 2
    /\ doc.rows[1].items[1].keys = <<<<"b">>>>
    /\ doc.rows[1].items[2].keys = <<<<"a">>, <<"b">>>>
    /\ delivered[1].summary.rowCount = 2
    /\ delivered[1].summary.columnCount = 1

\* C18: a .json file whose text is malformed JSON, or valid JSON whose
\* top-level value is a number, a string, a boolean, null or an empty list,
\* ends with an error message and no dataset.
C18_JsonRejected ==
    (stage = "done" /\ Ext = ExtJson /\ doc.kind \in {"json", "badjson"}
       /\ \/ doc.kind = "badjson"
          \/ doc.rows[1].t \in {"number", "string", "boolean", "null"}
          \/ doc.rows[1] = JsArray(<<>>))
    => /\ error.message # null
       /\ delivered = <<>>

\* String.prototype.trimStart and trimEnd, for the lines a text was made of
trimStart(s) ==
    LET keep == {i \in 1..Len(s) : s[i] \notin Whitespace}
    IN IF keep = {} THEN <<>> ELSE SubSeq(s, MinOf(keep), Len(s))
trimEnd(s) ==
    LET keep == {i \in 1..Len(s) : s[i] \notin Whitespace}
    IN IF keep = {} THEN <<>> ELSE SubSeq(s, 1, MaxOf(keep))

\* the non-blank lines a text document was made of
NonBlankLines == SelectSeq(doc.rows, LAMBDA line : trim(line) # <<>>)

\* the dataset of a text document: one row {id: i, text: texts[i]} for each
\* of the m non-blank lines, ids 1..m, the two fixed columns
TxtDataset(texts) ==
    (stage = "done" /\ doc.kind = "txt")
    => /\ Len(delivered) = 1
       /\ LET d == delivered[1]
              m == Len(NonBlankLines)
          IN /\ Len(d.data) = m
             /\ d.summary.rowCount = m
             /\ \A i \in 1..m :
                  d.data[i] = JsObject(<<StrId, StrText>>, <<JsNumber(i), JsString(texts[i])>>)
             /\ d.columns = <<[name |-> StrId, type |-> "number", nullable |-> FALSE],
                              [name |-> StrText, type |-> "string", nullable |-> FALSE]>>
             /\ d.summary.columnCount = 2

\* C19 as stated: m non-blank lines give exactly m rows in line order, row i
\* being {id: i, text: the i-th non-blank line}, ids 1..m, the columns fixed
\* as id (number) and text (string), both not nullable, columnCount = 2;
\* blank lines give no row and take no id.
C19_TxtRows == TxtDataset(NonBlankLines)

\* C19 amended: as C19, the text of a row being the i-th non-blank line of
\* the trimmed file text: the first non-blank line without its leading
\* whitespace, the last without its trailing whitespace.
C19_TxtRowsOfTrimmedText ==
    TxtDataset([i \in 1..Len(NonBlankLines) |->
        LET line == NonBlankLines[i]
            left == IF i = 1 THEN trimStart(line) ELSE line
        IN IF i = Len(NonBlankLines) THEN trimEnd(left) ELSE left])

C19_Witness ==
    /\ Delivered
    /\ doc.kind = "txt"
    /\ doc.rows = <<<<" ", "a">>, <<>>, <<"b", " ">>>>
    /\ Len(delivered[1].data) = 2
    /\ delivered[1].data[2].items = <<JsNumber(2), JsString(<<"b">>)>>

\* C20: a CSV document whose fields are quoted keeps the commas inside them:
\* every row has, for each header name, the field's whole value with the
\* quotes removed.
C20_QuotedCommasKept ==
    (stage = "done" /\ doc.kind = "quoted")
    => /\ Len(delivered) = 1
       /\ Len(delivered[1].data) = Len(doc.rows)
       /\ \A k \in 1..Len(doc.rows), i \in 1..Len(doc.header) :
            GetProperty(delivered[1].data[k], doc.header[i]) = JsString(doc.rows[k][i])

(***************************************************************************)
(* Loader, provider and application claims C21-C30                         *)
(***************************************************************************)
\* the waits of a retry sequence with n failed attempts that were followed by
\* another attempt: 1000 ms, 2000 ms, ...
BackoffSchedule(n) == [k \in 1..n |-> backoffStep * k]

\* C23: within one fresh load call a script element is inserted at most
\* `retries` (3) times; every failed attempt, a script that loaded without
\* defining the engine included, is counted; after failed attempt k = 1, 2
\* the loader waits k * 1000 ms before attempt k + 1 and does not wait after
\* the last failed attempt; the first successful attempt ends the sequence
\* with isLoaded = true
C23_RetrySchedule ==
    \A c \in Calls :
      call[c].via = "fresh" =>
        /\ call[c].scripts <= retries
        /\ call[c].attempt <= retries
        /\ call[c].delays = BackoffSchedule(Len(call[c].delays))
        /\ Len(call[c].delays) = IF call[c].attempt < retries THEN call[c].attempt
                                  ELSE retries - 1
        /\ call[c].scripts = IF call[c].pc \in {"arrow", "preload"}
                                 \/ call[c].arrowCheck = "failed" THEN 0
                              ELSE IF call[c].pc = "backoff" THEN Len(call[c].delays)
                              ELSE Len(call[c].delays) + 1
        /\ (call[c].lastError # null) = (call[c].attempt >= 1)
        /\ (call[c].pc = "resolved" /\ call[c].attempt < retries) =>
              loaderState.isLoaded /\ call[c].result = windowDataPrism
                                   /\ windowDataPrism # undefined
        /\ (call[c].pc \in {"script", "backoff"}) => ~loaderState.isLoaded

\* a call that succeeded at its third attempt, after a script that loaded
\* without defining the engine
C23_Witness ==
    \E c \in Calls :
      /\ call[c].via = "fresh" /\ call[c].pc = "resolved"
      /\ call[c].scripts = retries /\ call[c].attempt = retries - 1
      /\ call[c].lastError = ErrNotFound
      /\ call[c].delays = <<1000, 2000>>
      /\ loaderState.isLoaded

\* the calls inside the fetch section
Fetching == {c \in Calls : InFetch(c)}

MutexState ==
    /\ Cardinality(Fetching) <= 1
    /\ loaderState.isLoading = (Fetching # {})

\* a step that writes the loader state or window.DataPrism is a step of the
\* one call that is, or with this step enters, the fetch section
OnlyHolderWrites ==
    (loaderState' # loaderState \/ windowDataPrism' # windowDataPrism) =>
      \E c \in Calls :
        /\ InFetch(c) \/ InFetch(c)'
        /\ call'[c] # call[c]
        /\ \A d \in Calls \ {c} : call'[d] = call[d] /\ ~InFetch(d) /\ ~InFetch(d)'

\* C25: isLoading is a mutex. Under any interleaving of load calls (without
\* resetLoaderState) at most one call is inside the fetch section, isLoading
\* is true exactly when such a call exists, and the loader state and
\* window.DataPrism are written only by that call
C25_LoadingIsMutex == []MutexState /\ [][OnlyHolderWrites]_vars

\* one call retries inside the fetch section while the two others wait
C25_Witness ==
    \E c \in Calls :
      /\ call[c].pc = "backoff"
      /\ loaderState.isLoading
      /\ \A d \in Calls \ {c} : call[d].pc = "waiting"

\* C24: every call of loadDataPrismFromCDN eventually settles (resolves or
\* rejects), whatever the browser does with the dependency import, the
\* preload hint and the script element, provided timers fire
C24_EveryCallSettles ==
    \A c \in Calls : (call[c].pc # "idle") ~> Settled(c)

\* the same for the calls that do not start the fetch section themselves
WaitersSettle ==
    \A c \in Calls : (call[c].pc = "waiting") ~> Settled(c)

\* the calls of loadDataPrismFromCDN and the engine instances so far
LoadCalls == {c \in Calls : call[c].pc # "idle"}
EnginesCreated == {e \in Calls : engines[e].created}

\* C21: while one DataPrismProvider stays mounted as App mounts it (no config
\* prop, no change by the parent), loadDataPrismFromCDN is called exactly once
\* and exactly one engine instance is created and initialised; afterwards
\* the provider state is stable and no further load or initialise occurs
C21_LoadsOnce ==
    mounted = "yes" =>
      /\ Cardinality(LoadCalls) <= 1
      /\ Cardinality(EnginesCreated) <= 1
      /\ provider.isInitialized => ~provider.isLoading

\* a run of initializeDataPrism ends in its catch block
RunFails(r) == runs[r].pc = "loading" /\ runs'[r].pc = "failed"

EngineInitialisedFirst ==
    /\ \A e \in Calls :
         /\ engines[e].initCalls = (IF engines[e].created THEN 1 ELSE 0)
         /\ engines[e].processed => engines[e].initialized
    /\ provider.engine # 0 =>
         provider.isInitialized /\ engines[provider.engine].initialized

FailureLeavesNoEngine ==
    \A r \in Calls :
      (mounted = "yes" /\ RunFails(r)) =>
        /\ provider'.engine = 0
        /\ provider'.error # NoError
        /\ ~provider'.isLoading

\* C22: initialize() is called exactly once on each engine instance and has
\* resolved before the provider exposes the instance (engine != null implies
\* isInitialized), so every processData call targets an initialised engine;
\* when the loader or initialize() fails, engine stays null, error is set and
\* isLoading becomes false
C22_InitialisedBeforeUse == []EngineInitialisedFirst /\ [][FailureLeavesNoEngine]_vars

\* C29: every engine instance the provider creates is cleaned up exactly once
\* when the provider unmounts or the effect re-runs, also when that happens
\* while the loader or initialize() is pending: no engine is left initialised
\* and never cleaned up
C29_CleanedUpOnce ==
    \A e \in Calls :
      /\ engines[e].cleanups <= 1
      /\ (engines[e].initialized /\ ~runs[e].live) => engines[e].cleanups = 1

\* C30: the engine exposed by the provider's context has not had cleanup()
\* called, so no processData call reaches a cleaned-up engine
C30_NoUseAfterCleanup ==
    /\ (mounted = "yes" /\ provider.engine # 0) =>
          engines[provider.engine].cleanups = 0
    /\ \A e \in Calls : ~engines[e].processedAfterCleanup

\* upload u hands its dataset to handleFileUpload in this step
Uploaded(u) ==
    /\ uploads[u].pc = "reading"
    /\ uploads'[u].pc = "done"
    /\ Len(delivered') = Len(delivered) + 1

AutoConfigured ==
    \A u \in Uploads :
      LET data == delivered'[Len(delivered')]
      IN (Uploaded(u) /\ Len(data.columns) >= 2) =>
           /\ uploadedData'.dataset = data
           /\ chartConfig'.xField = data.columns[1].name
           /\ chartConfig'.yField = data.columns[2].name
           /\ chartConfig'.title = data.columns[2].name \o <<" ", "b", "y", " ">>
                                      \o data.columns[1].name
           /\ chartConfig'.id = chartConfig.id
           /\ chartConfig'.type = chartConfig.type

RenderedWhenConfigured ==
    ChartRendered = (uploadedData # NoUploadedData /\ Len(chartConfig.xField) > 0
                                                   /\ Len(chartConfig.yField) > 0)

C27_FieldsOfShownDataset ==
    /\ chartConfig.xField \in {<<>>} \cup ColumnNames(uploadedData.dataset)
    /\ chartConfig.yField \in {<<>>} \cup ColumnNames(uploadedData.dataset)

\* the calls of handleFile that have started and not finished, and those that
\* delivered a dataset
Reading == {u \in Uploads : uploads[u].pc = "reading"}
DeliveredBy ==
    {u \in Uploads : /\ uploads[u].pc = "done"
                      /\ fileExtension(uploads[u].file.name) \in acceptedTypes
                      /\ uploads[u].file.size <= maxSize * 1024 * 1024
                      /\ parseFile(uploads[u].file).ok}

\* C28: latest upload wins. When files are submitted in quick succession, the
\* dataset finally shown is that of the most recently submitted file, in
\* whatever order the reads complete, and uploading stays true until every
\* started handleFile has finished
C28_LatestUploadWins ==
    /\ uploading = (Reading # {})
    /\ (Reading = {} /\ DeliveredBy # {}) =>
          uploadedData.from = CHOOSE u \in DeliveredBy : \A v \in DeliveredBy : v <= u

====
